---- MODULE Spec2Model ----
(***************************************************************************)
(* State-machine model of streamlit_app.py: one Streamlit session of the  *)
(* credit-card fraud dashboard.  A step is one render pass, i.e. one run   *)
(* of the script from its first line to its last line or to the first     *)
(* statement that raises.                                                  *)
(*                                                                         *)
(* Row counts are scaled down: the slider of the script runs from 1000 to  *)
(* 1852394 in steps of 1000; the model's slider runs from min_value to     *)
(* max_value in steps of step, one unit standing for one slider step.      *)
(*                                                                         *)
(* df_subset = df.head(n) is a slice of the frame held in session state,   *)
(* and the script then assigns through df_subset.loc[:, col].  Whether     *)
(* such an assignment writes into the parent frame is not fixed by the     *)
(* script: it depends on the pandas build (the chained-assignment case the *)
(* comment of line 85 refers to).  inplace_setitem is that build choice:   *)
(*   FALSE  the assignment replaces the column of df_subset by a new       *)
(*          datetime64 array; the parent frame is untouched;               *)
(*   TRUE   the assignment stores the Timestamps into the existing object  *)
(*          array, which df_subset shares with the parent frame; the       *)
(*          column keeps dtype object.                                     *)
(***************************************************************************)
EXTENDS Integers, Sequences, FiniteSets, TLC

(* ---- bounds of the model ---- *)
MaxTrain == 2
MaxTest == 1
MaxLoadFailures == 1

(* ---- st.slider(min_value, max_value, step, value), line 80, scaled ---- *)
min_value == 1
max_value == 3
step == 1
value == 2

SliderValues == { n \in min_value..max_value : (n - min_value) % step = 0 }

(* ---- the transactions the two CSV files are drawn from ---- *)
\* A timestamp as the CSV holds it: text "day hour:..".
Text(d, h) == [kind |-> "str", day |-> d, hour |-> h]

Txn(d, h, a, c, f, j) ==
    [trans_date_trans_time |-> Text(d, h), amt |-> a, trans_num |-> "t",
     category |-> c, is_fraud |-> f, job |-> j]

Transactions ==
    { Txn(0, 22, 10, "grocery", 1, "Nurse"),
      Txn(0, 10, 20, "grocery", 1, "Engineer"),
      Txn(1, 23, 10, "gas", 1, "Nurse"),
      Txn(1, 22, 20, "gas", 0, "Engineer") }

\* The rows used where the header, not the rows, is what varies.
SchemaTransactions ==
    { Txn(0, 22, 10, "grocery", 1, "Nurse"),
      Txn(1, 10, 20, "gas", 0, "Engineer") }

Columns ==
    {"trans_date_trans_time", "amt", "trans_num", "category", "is_fraud", "job"}

\* The header of the CSV files: complete, or lacking one column.
Schemas == {Columns} \cup { Columns \ {c} : c \in Columns }

SeqsUpTo(S, k) == UNION { [1..m -> S] : m \in 0..k }

\* Ascending order of the group keys (strings), as groupby(sort=True) yields.
KeyOrder == <<"Engineer", "Nurse", "gas", "grocery">>

VARIABLES
    fraud_train,      \* rows of fraudTrain.csv
    fraud_test,       \* rows of fraudTest.csv
    csv_columns,      \* the columns both files have
    inplace_setitem,  \* the pandas build: .loc[:, col] = v writes in place
    session_state,    \* st.session_state: [has_df, df]
    cached,           \* st.cache_data holds load_data's result
    load_calls,       \* invocations of load_data()
    downloads,        \* executions of load_data's body
    subset_size,      \* the slider's value in the last pass that drew it
    slider_shown,     \* the last pass reached st.slider
    subset_at_head,   \* df_subset as line 83 returned it
    df_subset,        \* df_subset when the pass ended
    charts,           \* the derived tables of the last pass
    status,           \* "init", "ok" or "error"
    error_at          \* the statement that raised, or "none"

vars ==
    <<fraud_train, fraud_test, csv_columns, inplace_setitem, session_state,
      cached, load_calls, downloads, subset_size, slider_shown,
      subset_at_head, df_subset, charts, status, error_at>>

(* ---- pandas helpers ---- *)

\* pd.concat([fraud_train, fraud_test], ignore_index=True)
load_data(train, test) == train \o test

\* Variant of head: one row short (an off-by-one slice bound).
head_short(df, n) ==
    [i \in 1..(IF n - 1 < Len(df) THEN n - 1 ELSE Len(df)) |-> df[i]]

\* DataFrame.head(n): the first n rows, all rows when there are fewer.
head(df, n) == [i \in 1..(IF n < Len(df) THEN n ELSE Len(df)) |-> df[i]]

\* pd.to_datetime on one cell: text is parsed into a Timestamp (hours since
\* day 0); a Timestamp is returned as it is.
to_datetime(cell) ==
    IF cell.kind = "str"
    THEN [kind |-> "ts", hours |-> cell.day * 24 + cell.hour]
    ELSE cell

\* Variant of dt_date: the timestamp itself, not truncated to the day.
dt_date_untruncated(ts) == ts.hours

\* Series.dt.date and Series.dt.hour on one Timestamp.
dt_date(ts) == ts.hours \div 24

dt_hour(ts) == ts.hours % 24

(* ---- the column assignments of lines 86, 118 and 119 ---- *)

\* dtype of df_subset['trans_date_trans_time'] after line 86.
dtype_after_setitem(inplace) == IF inplace THEN "object" ELSE "datetime64"

\* df_subset after line 86: every timestamp cell holds a Timestamp.
convert_timestamps(sub) ==
    [i \in DOMAIN sub |->
        [sub[i] EXCEPT !.trans_date_trans_time = to_datetime(@)]]

\* The frame in session state after line 86.  df_subset shares its arrays
\* with that frame, so an in-place assignment reaches its first Len(sub) rows.
parent_after_setitem(df, sub, inplace) ==
    IF inplace
    THEN [i \in DOMAIN df |->
            IF i <= Len(sub)
            THEN [df[i] EXCEPT !.trans_date_trans_time = to_datetime(@)]
            ELSE df[i]]
    ELSE df

\* Variant of fraud_status: the two labels exchanged.
fraud_status_swapped(is_fraud) ==
    CASE is_fraud = 0 -> "Fraud"
      [] is_fraud = 1 -> "Normal"
      [] OTHER -> "NaN"

\* Series.map({0: 'Normal', 1: 'Fraud'}), line 118.
fraud_status(is_fraud) ==
    CASE is_fraud = 0 -> "Normal"
      [] is_fraud = 1 -> "Fraud"
      [] OTHER -> "NaN"

\* df_subset after lines 118-119: two new columns, on df_subset only.
enrich(sub) ==
    [i \in DOMAIN sub |->
        [trans_date_trans_time |-> sub[i].trans_date_trans_time,
         amt |-> sub[i].amt, trans_num |-> sub[i].trans_num,
         category |-> sub[i].category, is_fraud |-> sub[i].is_fraud,
         job |-> sub[i].job,
         fraud_status |-> fraud_status(sub[i].is_fraud),
         hour |-> dt_hour(sub[i].trans_date_trans_time)]]

(* ---- group-by helpers ---- *)

\* The keys of a string-keyed group-by, ascending.
SortedKeys(S) == SelectSeq(KeyOrder, LAMBDA k : k \in S)

\* The keys of an integer-keyed group-by, ascending.
RECURSIVE SortedInts(_)
SortedInts(S) ==
    IF S = {} THEN <<>>
    ELSE LET m == CHOOSE x \in S : \A y \in S : x <= y
         IN <<m>> \o SortedInts(S \ {m})

RECURSIVE SumFraud(_)
SumFraud(rows) ==
    IF rows = <<>> THEN 0 ELSE Head(rows).is_fraud + SumFraud(Tail(rows))

\* sort_values(ascending=False) on the is_fraud column; rows with equal
\* counts keep their order.
RECURSIVE sort_values_desc(_)
sort_values_desc(t) ==
    IF t = <<>> THEN <<>>
    ELSE LET i == CHOOSE k \in DOMAIN t :
                    /\ \A j \in DOMAIN t : t[j].is_fraud <= t[k].is_fraud
                    /\ \A j \in 1..(k - 1) : t[j].is_fraud < t[k].is_fraud
         IN <<t[i]>> \o
            sort_values_desc([j \in 1..(Len(t) - 1) |->
                                 IF j < i THEN t[j] ELSE t[j + 1]])

(* ---- the aggregators ---- *)

\* px.histogram(df_subset, x='amt', color='is_fraud'), line 94: the rows
\* counted per amount and fraud flag.
fig1(sub) ==
    { [amt |-> a, is_fraud |-> f,
       count |-> Cardinality({i \in DOMAIN sub :
                                sub[i].amt = a /\ sub[i].is_fraud = f})] :
      <<a, f>> \in { <<sub[i].amt, sub[i].is_fraud>> : i \in DOMAIN sub } }

\* groupby(date).agg({'trans_num': 'count', 'is_fraud': 'sum'}), line 99.
transactions_over_time(sub) ==
    LET date(r) == dt_date(r.trans_date_trans_time)
        dates == SortedInts({ date(sub[i]) : i \in DOMAIN sub })
    IN [k \in DOMAIN dates |->
          LET grp == SelectSeq(sub, LAMBDA r : date(r) = dates[k])
          IN [trans_date_trans_time |-> dates[k],
              trans_num |-> Len(grp),
              is_fraud |-> SumFraud(grp)]]

\* Variant of fraud_by_category: the is_fraud == 1 filter left out.
fraud_by_category_unfiltered(sub) ==
    LET keys == SortedKeys({ sub[i].category : i \in DOMAIN sub })
    IN sort_values_desc(
          [k \in DOMAIN keys |->
             [category |-> keys[k],
              is_fraud |-> Len(SelectSeq(sub,
                                 LAMBDA r : r.category = keys[k]))]])

\* df_subset[is_fraud == 1].groupby('category')['is_fraud'].count()
\*     .sort_values(ascending=False).reset_index(), line 107.
fraud_by_category(sub) ==
    LET fraud == SelectSeq(sub, LAMBDA r : r.is_fraud = 1)
        keys == SortedKeys({ fraud[i].category : i \in DOMAIN fraud })
    IN sort_values_desc(
          [k \in DOMAIN keys |->
             [category |-> keys[k],
              is_fraud |-> Len(SelectSeq(fraud,
                                 LAMBDA r : r.category = keys[k]))]])

\* px.histogram(df_subset, x='hour', color='fraud_status'), lines 121-129:
\* the rows counted per hour and outcome label.
fig5(sub) ==
    { [hour |-> h, fraud_status |-> l,
       count |-> Cardinality({i \in DOMAIN sub :
                                sub[i].hour = h /\ sub[i].fraud_status = l})] :
      <<h, l>> \in { <<sub[i].hour, sub[i].fraud_status>> : i \in DOMAIN sub } }

\* Series.isin([22, 23]), line 141.
isin_22_23(h) == h \in {22, 23}

\* Variant of fraud_by_merchant: the is_fraud == 1 conjunct left out.
fraud_by_merchant_any_flag(sub) ==
    LET late_hours == SelectSeq(sub, LAMBDA r : isin_22_23(r.hour))
        keys == SortedKeys({ late_hours[i].category : i \in DOMAIN late_hours })
    IN [k \in DOMAIN keys |->
          [category |-> keys[k],
           fraud_count |-> Len(SelectSeq(late_hours,
                                  LAMBDA r : r.category = keys[k]))]]

\* late_hours_fraud and fraud_by_merchant, lines 141-144.
fraud_by_merchant(sub) ==
    LET late_hours_fraud ==
            SelectSeq(sub, LAMBDA r : r.is_fraud = 1 /\ isin_22_23(r.hour))
        keys == SortedKeys({ late_hours_fraud[i].category :
                               i \in DOMAIN late_hours_fraud })
    IN [k \in DOMAIN keys |->
          [category |-> keys[k],
           fraud_count |-> Len(SelectSeq(late_hours_fraud,
                                  LAMBDA r : r.category = keys[k]))]]

\* df_subset[is_fraud == 1].groupby('job')['is_fraud'].count()
\*     .reset_index().sort_values(by='is_fraud', ascending=False), line 159.
fraud_by_job(sub) ==
    LET fraud == SelectSeq(sub, LAMBDA r : r.is_fraud = 1)
        keys == SortedKeys({ fraud[i].job : i \in DOMAIN fraud })
    IN sort_values_desc(
          [k \in DOMAIN keys |->
             [job |-> keys[k],
              is_fraud |-> Len(SelectSeq(fraud,
                                 LAMBDA r : r.job = keys[k]))]])

(* ---- the script, statement by statement ---- *)

\* The statements of the script that read the frame, in program order.
\* "overview" is lines 63-69, "to_datetime" line 86, "fig5" lines 118-129.
Script ==
    <<"overview", "to_datetime", "fig1", "transactions_over_time",
      "fraud_by_category", "fig5", "fraud_by_merchant", "fraud_by_job">>

\* The columns of the loaded table a statement looks up by name.
Reads(stmt) ==
    CASE stmt = "overview" -> {"is_fraud"}
      [] stmt = "to_datetime" -> {"trans_date_trans_time"}
      [] stmt = "fig1" -> {"amt", "is_fraud"}
      [] stmt = "transactions_over_time" ->
            {"trans_date_trans_time", "trans_num", "is_fraud"}
      [] stmt = "fraud_by_category" -> {"is_fraud", "category"}
      [] stmt = "fig5" -> {"is_fraud", "trans_date_trans_time"}
      [] stmt = "fraud_by_merchant" -> {"is_fraud", "category"}
      [] stmt = "fraud_by_job" -> {"is_fraud", "job"}

\* The statements that use the .dt accessor (lines 99 and 119).
UsesDt(stmt) == stmt \in {"transactions_over_time", "fig5"}

\* A statement raises when a column it looks up is absent (KeyError), or
\* when it uses .dt on a column whose dtype is not datetime64
\* (AttributeError).
Raises(stmt, cols, dtype) ==
    \/ ~(Reads(stmt) \subseteq cols)
    \/ UsesDt(stmt) /\ dtype # "datetime64"

Index(stmt) == CHOOSE i \in DOMAIN Script : Script[i] = stmt

\* The position of the first statement that raises; Len(Script) + 1 when
\* the script runs to its end.
FirstRaise(cols, dtype) ==
    LET bad == { i \in DOMAIN Script : Raises(Script[i], cols, dtype) }
    IN IF bad = {} THEN Len(Script) + 1
       ELSE CHOOSE i \in bad : \A j \in bad : i <= j

\* Variant of Completed: every statement guarded on its own, so that a
\* statement completes unless it is the one that raises.
Completed_independent(stmt, stop) == Index(stmt) # stop

\* The script is one straight-line run: a statement completes iff it stands
\* before the first statement that raises.
Completed(stmt, stop) == Index(stmt) < stop

\* Variant of NeedsLoad: the guard of line 34 left out.
NeedsLoad_always(ss) == TRUE

\* Line 34: 'df' not in st.session_state.
NeedsLoad(ss) == ~ss.has_df

Produced(t) == [produced |-> TRUE, table |-> t]

NoSeq == [produced |-> FALSE, table |-> <<>>]

NoSet == [produced |-> FALSE, table |-> {}]

NoCharts ==
    [fig1 |-> NoSet, transactions_over_time |-> NoSeq,
     fraud_by_category |-> NoSeq, fig5 |-> NoSet,
     fraud_by_merchant |-> NoSeq, fraud_by_job |-> NoSeq]

\* The derived tables of a pass over the frame df with slider value n that
\* stops at position stop of the script.
Charts(df, n, stop) ==
    LET sub1 == convert_timestamps(head(df, n))
        sub2 == enrich(sub1)
    IN [fig1 |->
          IF Completed("fig1", stop) THEN Produced(fig1(sub1)) ELSE NoSet,
        transactions_over_time |->
          IF Completed("transactions_over_time", stop)
          THEN Produced(transactions_over_time(sub1)) ELSE NoSeq,
        fraud_by_category |->
          IF Completed("fraud_by_category", stop)
          THEN Produced(fraud_by_category(sub1)) ELSE NoSeq,
        fig5 |->
          IF Completed("fig5", stop) THEN Produced(fig5(sub2)) ELSE NoSet,
        fraud_by_merchant |->
          IF Completed("fraud_by_merchant", stop)
          THEN Produced(fraud_by_merchant(sub2)) ELSE NoSeq,
        fraud_by_job |->
          IF Completed("fraud_by_job", stop)
          THEN Produced(fraud_by_job(sub2)) ELSE NoSeq]

\* df_subset as the pass leaves it.
SubsetAtEnd(df, n, stop) ==
    IF Completed("fig5", stop) THEN enrich(convert_timestamps(head(df, n)))
    ELSE IF Completed("to_datetime", stop)
         THEN convert_timestamps(head(df, n))
         ELSE head(df, n)

\* Variant of FrameAtEnd: the subset stored back into session state.
FrameAtEnd_subset(df, n, stop, inplace) == SubsetAtEnd(df, n, stop)

\* The frame in session state as the pass leaves it.
FrameAtEnd(df, n, stop, inplace) ==
    IF Completed("to_datetime", stop)
    THEN parent_after_setitem(df, head(df, n), inplace)
    ELSE df

\* Failed loads so far: body executions that did not fill the cache.
LoadFailures == downloads - (IF cached THEN 1 ELSE 0)

\* gdown.download and read_csv either succeed or raise; the outcome matters
\* only in a pass that runs load_data's body.
LoadOutcomes ==
    IF NeedsLoad(session_state) /\ ~cached /\ LoadFailures < MaxLoadFailures
    THEN BOOLEAN
    ELSE {TRUE}

(* ---- one render pass: the whole script ---- *)
RenderPass(sel, load_ok) ==
    LET need_load == NeedsLoad(session_state)
        body_runs == need_load /\ ~cached
        df == IF need_load THEN load_data(fraud_train, fraud_test)
              ELSE session_state.df
        stop == FirstRaise(csv_columns, dtype_after_setitem(inplace_setitem))
        shown == Completed("overview", stop)
    IN /\ load_calls' = IF need_load THEN load_calls + 1 ELSE load_calls
       /\ downloads' = IF body_runs THEN downloads + 1 ELSE downloads
       /\ IF body_runs /\ ~load_ok
          THEN \* load_data raised: line 35 never assigns
               /\ UNCHANGED <<session_state, cached>>
               /\ slider_shown' = FALSE
               /\ subset_size' = 0
               /\ subset_at_head' = <<>>
               /\ df_subset' = <<>>
               /\ charts' = NoCharts
               /\ status' = "error"
               /\ error_at' = "load_data"
          ELSE /\ cached' = TRUE
               /\ slider_shown' = shown
               /\ subset_size' = IF shown THEN sel ELSE 0
               /\ subset_at_head' = IF shown THEN head(df, sel) ELSE <<>>
               /\ df_subset' = IF shown THEN SubsetAtEnd(df, sel, stop)
                               ELSE <<>>
               /\ session_state' =
                     [has_df |-> TRUE,
                      df |-> IF shown
                             THEN FrameAtEnd(df, sel, stop, inplace_setitem)
                             ELSE df]
               /\ charts' = IF shown THEN Charts(df, sel, stop) ELSE NoCharts
               /\ status' = IF stop > Len(Script) THEN "ok" ELSE "error"
               /\ error_at' = IF stop > Len(Script) THEN "none"
                              ELSE Script[stop]
       /\ UNCHANGED <<fraud_train, fraud_test, csv_columns, inplace_setitem>>

\* The first run of the script in the session: the slider has its default.
InitialRender ==
    /\ status = "init"
    /\ \E ok \in LoadOutcomes : RenderPass(value, ok)

\* The operator moves the slider: the script reruns with the new value.
SliderMove ==
    /\ slider_shown
    /\ \E n \in SliderValues \ {subset_size} :
          \E ok \in LoadOutcomes : RenderPass(n, ok)

\* Any other rerun of the script: the slider keeps its value if the last
\* pass drew it and has its default otherwise.
Rerun ==
    /\ status # "init"
    /\ \E ok \in LoadOutcomes :
          RenderPass(IF slider_shown THEN subset_size ELSE value, ok)

\* A session that has not run the script yet, over the given CSV files.
SessionStart(rows, schemas) ==
    /\ fraud_train \in SeqsUpTo(rows, MaxTrain)
    /\ fraud_test \in SeqsUpTo(rows, MaxTest)
    /\ csv_columns \in schemas
    /\ inplace_setitem \in BOOLEAN
    /\ session_state = [has_df |-> FALSE, df |-> <<>>]
    /\ cached = FALSE
    /\ load_calls = 0
    /\ downloads = 0
    /\ subset_size = 0
    /\ slider_shown = FALSE
    /\ subset_at_head = <<>>
    /\ df_subset = <<>>
    /\ charts = NoCharts
    /\ status = "init"
    /\ error_at = "none"

\* The dataset of the repository: both files carry every column.
Init == SessionStart(Transactions, {Columns})

\* Files whose header may lack one column the script reads.
SchemaInit == SessionStart(SchemaTransactions, Schemas)

Next == InitialRender \/ SliderMove \/ Rerun

Spec == Init /\ [][Next]_vars

SchemaSpec == SchemaInit /\ [][Next]_vars

(* ======================================================================= *)
(* The claims.  Ground truth is read from the CSV rows themselves: FileRow  *)
(* is the i-th row of fraudTrain.csv followed by fraudTest.csv, and RawDay  *)
(* and RawHour are the day and hour written in its timestamp text.          *)
(* ======================================================================= *)

FileRow(i) ==
    IF i <= Len(fraud_train) THEN fraud_train[i]
    ELSE fraud_test[i - Len(fraud_train)]

FileLen == Len(fraud_train) + Len(fraud_test)

RawDay(i) == FileRow(i).trans_date_trans_time.day

RawHour(i) == FileRow(i).trans_date_trans_time.hour

HoursOf(cell) ==
    IF cell.kind = "str" THEN cell.day * 24 + cell.hour ELSE cell.hours

\* The same transaction: every column equal, the timestamp as a point in time.
SameTransaction(r, f) ==
    /\ r.amt = f.amt
    /\ r.trans_num = f.trans_num
    /\ r.category = f.category
    /\ r.is_fraud = f.is_fraud
    /\ r.job = f.job
    /\ HoursOf(r.trans_date_trans_time) = HoursOf(f.trans_date_trans_time)

\* The frame df.head is applied to in a step: the one in session state, or
\* the loader's result in the pass that loads.
TableBefore ==
    IF session_state.has_df THEN session_state.df
    ELSE [i \in 1..FileLen |-> FileRow(i)]

\* The rows of the subset, by position.
SubsetRows == DOMAIN subset_at_head

FraudRows == { i \in SubsetRows : subset_at_head[i].is_fraud = 1 }

NormalRows == { i \in SubsetRows : subset_at_head[i].is_fraud = 0 }

LateFraudRows == { i \in FraudRows : RawHour(i) \in {22, 23} }

RECURSIVE SeqSum(_)
SeqSum(q) == IF q = <<>> THEN 0 ELSE Head(q) + SeqSum(Tail(q))

RECURSIVE CountSum(_)
CountSum(S) ==
    IF S = {} THEN 0
    ELSE LET e == CHOOSE x \in S : TRUE IN e.count + CountSum(S \ {e})

\* The three transactions of the end-to-end scenario of the specification,
\* as (hour, category, fraud flag).
ScenarioSubset ==
    /\ Len(subset_at_head) = 3
    /\ RawHour(1) = 22 /\ subset_at_head[1].category = "grocery"
    /\ RawHour(2) = 10 /\ subset_at_head[2].category = "grocery"
    /\ RawHour(3) = 23 /\ subset_at_head[3].category = "gas"
    /\ \A i \in 1..3 : subset_at_head[i].is_fraud = 1

(* C1: for every valid row-count selection n (n on the slider's grid and   *)
(* n <= the number of rows of the table), df.head(n) has exactly n rows    *)
(* and its i-th row is the i-th row of the full table, for every i <= n,   *)
(* which is the i-th transaction of the train file followed by the test    *)
(* file.                                                                   *)
C1_HeadIsPrefix ==
    [][(slider_shown' /\ subset_size' \in SliderValues
          /\ subset_size' <= Len(TableBefore))
       => /\ Len(subset_at_head') = subset_size'
          /\ \A i \in 1..subset_size' :
                /\ subset_at_head'[i] = TableBefore[i]
                /\ SameTransaction(subset_at_head'[i], FileRow(i))]_vars

\* A proper prefix of a table that holds rows of both files.
C1_Witness ==
    /\ slider_shown
    /\ Len(fraud_train) >= 1
    /\ Len(fraud_test) >= 1
    /\ subset_size < Len(session_state.df)
    /\ Len(subset_at_head) = subset_size

(* C2: fraud_by_category has one row per merchant category with at least   *)
(* one fraudulent row in the subset and no row for any other category;     *)
(* each count is >= 1 and is the number of fraudulent rows of the          *)
(* category; the rows are sorted by count descending; the counts sum to    *)
(* the number of fraudulent rows of the subset.  For the scenario's three  *)
(* rows the table is grocery: 2 followed by gas: 1.                        *)
C2_CategoryRanking ==
    charts.fraud_by_category.produced =>
      LET t == charts.fraud_by_category.table
          n(c) == Cardinality({ i \in FraudRows :
                                  subset_at_head[i].category = c })
      IN /\ \A c \in {"gas", "grocery"} :
               IF n(c) = 0
               THEN \A k \in DOMAIN t : t[k].category # c
               ELSE \E k \in DOMAIN t :
                      /\ t[k].category = c
                      /\ t[k].is_fraud = n(c)
                      /\ \A l \in DOMAIN t : t[l].category = c => l = k
         /\ \A k \in DOMAIN t :
               t[k].category \in {"gas", "grocery"} /\ t[k].is_fraud >= 1
         /\ \A k, l \in DOMAIN t : k < l => t[k].is_fraud >= t[l].is_fraud
         /\ SeqSum([k \in DOMAIN t |-> t[k].is_fraud]) = Cardinality(FraudRows)
         /\ ScenarioSubset =>
               t = <<[category |-> "grocery", is_fraud |-> 2],
                     [category |-> "gas", is_fraud |-> 1]>>

\* The scenario: two categories, the one with the larger key ranked first.
C2_Witness ==
    /\ charts.fraud_by_category.produced
    /\ ScenarioSubset
    /\ Len(charts.fraud_by_category.table) = 2
    /\ charts.fraud_by_category.table[1].is_fraud = 2

(* C3: the fraud_count of a category in fraud_by_merchant is the number of *)
(* subset rows of that category with fraud flag 1 and hour 22 or 23; a     *)
(* fraudulent row at another hour and a non-fraudulent row at hour 22 or   *)
(* 23 are counted nowhere, and a category without such a row is absent.    *)
(* For the scenario's three rows the table is {grocery: 1, gas: 1}.        *)
C3_LateNight ==
    charts.fraud_by_merchant.produced =>
      LET t == charts.fraud_by_merchant.table
          n(c) == Cardinality({ i \in LateFraudRows :
                                  subset_at_head[i].category = c })
      IN /\ \A c \in {"gas", "grocery"} :
               IF n(c) = 0
               THEN \A k \in DOMAIN t : t[k].category # c
               ELSE \E k \in DOMAIN t :
                      /\ t[k].category = c
                      /\ t[k].fraud_count = n(c)
                      /\ \A l \in DOMAIN t : t[l].category = c => l = k
         /\ \A k \in DOMAIN t : t[k].category \in {"gas", "grocery"}
         /\ SeqSum([k \in DOMAIN t |-> t[k].fraud_count])
               = Cardinality(LateFraudRows)
         /\ ScenarioSubset =>
               { <<t[k].category, t[k].fraud_count>> : k \in DOMAIN t }
                  = { <<"grocery", 1>>, <<"gas", 1>> }

\* The subset holds a late fraud, a fraud at another hour and a
\* non-fraudulent row at hour 22 or 23.
C3_Witness ==
    /\ charts.fraud_by_merchant.produced
    /\ LateFraudRows # {}
    /\ FraudRows \ LateFraudRows # {}
    /\ \E i \in NormalRows : RawHour(i) \in {22, 23}

(* C4: in every row of the subset the derived hour is in 0..23 and the     *)
(* label is 'Fraud' for fraud flag 1 and 'Normal' for fraud flag 0; the    *)
(* 'Fraud' counts of fig5 summed over the hours are the number of          *)
(* fraudulent rows and the 'Normal' counts the number of non-fraudulent    *)
(* rows of the subset.                                                     *)
C4_HourlyVelocity ==
    charts.fig5.produced =>
      LET t == charts.fig5.table
      IN /\ Len(df_subset) = Len(subset_at_head)
         /\ \A i \in DOMAIN df_subset :
               /\ df_subset[i].hour \in 0..23
               /\ df_subset[i].hour = RawHour(i)
               /\ subset_at_head[i].is_fraud = 1
                     => df_subset[i].fraud_status = "Fraud"
               /\ subset_at_head[i].is_fraud = 0
                     => df_subset[i].fraud_status = "Normal"
         /\ \A e \in t : e.hour \in 0..23
         /\ CountSum({ e \in t : e.fraud_status = "Fraud" })
               = Cardinality(FraudRows)
         /\ CountSum({ e \in t : e.fraud_status = "Normal" })
               = Cardinality(NormalRows)
         /\ CountSum(t) = Len(subset_at_head)

\* Both outcomes occur, on the second day, at more than one hour.
C4_Witness ==
    /\ charts.fig5.produced
    /\ FraudRows # {}
    /\ NormalRows # {}
    /\ \E i \in SubsetRows : RawDay(i) = 1
    /\ Cardinality(charts.fig5.table) >= 3

(* C5: transactions_over_time has exactly one row per calendar date of    *)
(* the subset, ordered by date ascending; the row's total count is the     *)
(* number of subset rows on that date and its fraud count the number of    *)
(* fraudulent ones; the total counts sum to the size of the subset (n for  *)
(* a valid selection) and the fraud count never exceeds the total count.   *)
C5_TimeSeries ==
    charts.transactions_over_time.produced =>
      LET t == charts.transactions_over_time.table
          on(d) == { i \in SubsetRows : RawDay(i) = d }
      IN /\ { t[k].trans_date_trans_time : k \in DOMAIN t }
               = { RawDay(i) : i \in SubsetRows }
         /\ \A k, l \in DOMAIN t :
               k < l => t[k].trans_date_trans_time < t[l].trans_date_trans_time
         /\ \A k \in DOMAIN t :
               /\ t[k].trans_num = Cardinality(on(t[k].trans_date_trans_time))
               /\ t[k].is_fraud =
                     Cardinality(on(t[k].trans_date_trans_time) \cap FraudRows)
               /\ t[k].is_fraud <= t[k].trans_num
         /\ SeqSum([k \in DOMAIN t |-> t[k].trans_num]) = Len(subset_at_head)
         /\ subset_size <= FileLen
               => SeqSum([k \in DOMAIN t |-> t[k].trans_num]) = subset_size

\* Two dates, the later one first in the table, several rows on one date.
C5_Witness ==
    /\ charts.transactions_over_time.produced
    /\ Len(charts.transactions_over_time.table) = 2
    /\ Len(subset_at_head) = 3
    /\ RawDay(1) = 1
    /\ \E k \in 1..2 :
          /\ charts.transactions_over_time.table[k].trans_num = 2
          /\ charts.transactions_over_time.table[k].is_fraud = 1

\* The aggregators and the key of each one's derived table in charts.
Aggregators ==
    {"fig1", "transactions_over_time", "fraud_by_category", "fig5",
     "fraud_by_merchant", "fraud_by_job"}

\* A pass has run the script beyond the load.
PassRan == status # "init" /\ error_at # "load_data"

(* C6: after any sequence of render passes the table held in session      *)
(* state has the same rows, columns and cell values as the table the       *)
(* loader returned.  Fails where the assignment of line 86 writes in       *)
(* place: the timestamp cells of the first n rows then hold Timestamps     *)
(* where the loader returned text.                                         *)
C6_TableUnchanged ==
    session_state.has_df =>
      session_state.df = [i \in 1..FileLen |-> FileRow(i)]

(* C7, as stated: load_data is invoked on the first pass only, so a        *)
(* session that has run a pass has invoked it exactly once.  Fails when    *)
(* the first load raises: 'df' stays absent and the next pass invokes      *)
(* load_data again.                                                        *)
C7_LoadOnFirstPassOnly == status # "init" => load_calls = 1 /\ downloads = 1

(* C7, amended: load_data is invoked by exactly the passes that start      *)
(* with 'df' absent from session state, i.e. the first pass and every      *)
(* pass that follows only failed loads; a pass that starts with 'df'       *)
(* present neither invokes load_data nor downloads or re-reads the files,  *)
(* and 'df' stays present.  At most one load of a session succeeds.        *)
C7_LoadWhileAbsent ==
    [][/\ IF session_state.has_df
          THEN /\ load_calls' = load_calls
               /\ downloads' = downloads
               /\ session_state'.has_df
               /\ Len(session_state'.df) = Len(session_state.df)
          ELSE /\ load_calls' = load_calls + 1
               /\ downloads' = downloads + 1
               /\ session_state'.has_df = (error_at' # "load_data")
       /\ session_state'.has_df => load_calls' = LoadFailures' + 1]_vars

\* A first load that failed, a second one that succeeded and a later pass.
C7_Witness ==
    /\ session_state.has_df
    /\ load_calls = 2
    /\ downloads = 2
    /\ slider_shown
    /\ subset_size # value

(* C8: when the subset (of at least one row) holds no fraudulent row,      *)
(* fraud_by_category,                                                      *)
(* fraud_by_merchant and fraud_by_job are empty tables and the pass ends   *)
(* without an error; when it holds no fraudulent row at hours 22-23,       *)
(* fraud_by_merchant is an empty table and the pass ends without an        *)
(* error.  Fails where the assignment of line 86 writes in place (C6):     *)
(* the column keeps dtype object and line 99 raises before any of the      *)
(* three aggregators runs.                                                 *)
C8_EmptyResult ==
    (PassRan /\ slider_shown /\ Len(subset_at_head) >= 1) =>
      /\ FraudRows = {} =>
            /\ status = "ok"
            /\ charts.fraud_by_category = Produced(<<>>)
            /\ charts.fraud_by_merchant = Produced(<<>>)
            /\ charts.fraud_by_job = Produced(<<>>)
      /\ LateFraudRows = {} =>
            /\ status = "ok"
            /\ charts.fraud_by_merchant = Produced(<<>>)

(* C9, as stated: when the table lacks a field, the aggregators that read  *)
(* it produce no derived table and the pass shows an error, and the        *)
(* aggregators that do not read it still produce their derived tables in   *)
(* the same pass.  Stated for the build whose line 86 does not write in    *)
(* place, so that the missing field is the only cause of an error.         *)
C9_UnrelatedStillProduce ==
    (PassRan /\ csv_columns # Columns /\ ~inplace_setitem) =>
      /\ status = "error"
      /\ \A a \in Aggregators :
            charts[a].produced = (Reads(a) \subseteq csv_columns)

(* C9, amended: when the table lacks a field, the pass ends in an error    *)
(* at the first statement that raises; no aggregator that reads the        *)
(* missing field produces a derived table; the aggregators that stand      *)
(* before that statement produce theirs, and every aggregator that stands  *)
(* at or after it produces none, whether or not it reads the field.        *)
C9_StopsAtFirstError ==
    (PassRan /\ csv_columns # Columns) =>
      /\ status = "error"
      /\ error_at \in { Script[i] : i \in DOMAIN Script }
      /\ \A a \in Aggregators :
            /\ ~(Reads(a) \subseteq csv_columns) => ~charts[a].produced
            /\ charts[a].produced =
                  (\E i, j \in DOMAIN Script :
                      Script[i] = a /\ Script[j] = error_at /\ i < j)
      /\ \A a \in Aggregators :
            ~charts[a].produced =>
               IF a \in {"fig1", "fig5"} THEN charts[a].table = {}
               ELSE charts[a].table = <<>>

\* 'category' is missing: the aggregators before line 107 have produced,
\* fraud_by_job, which does not read it, has not.
C9_Witness ==
    /\ csv_columns = Columns \ {"category"}
    /\ ~inplace_setitem
    /\ error_at = "fraud_by_category"
    /\ charts.fig1.produced
    /\ charts.transactions_over_time.produced
    /\ ~charts.fig5.produced
    /\ ~charts.fraud_by_job.produced
    /\ Len(subset_at_head) >= 1

(* C10: the derived tables of a pass are determined by the CSV files and   *)
(* the row-count selection n of that pass alone, whatever passes the       *)
(* session ran before; so two passes of a session with the same n show     *)
(* identical tables (time series, category ranking, hourly velocity,       *)
(* late-night, fraud by job, amount histogram).                            *)
C10_Stateless ==
    (PassRan /\ slider_shown) =>
      charts = Charts([i \in 1..FileLen |-> FileRow(i)], subset_size,
                      IF error_at = "none" THEN Len(Script) + 1
                      ELSE CHOOSE j \in DOMAIN Script : Script[j] = error_at)

\* A pass with a smaller n after a pass with a larger n: rows beyond the
\* subset carry the earlier pass's Timestamps.
C10_Witness ==
    /\ slider_shown
    /\ charts.fig1.produced
    /\ subset_size < Len(session_state.df)
    /\ \E i \in DOMAIN session_state.df :
          i > subset_size /\ session_state.df[i].trans_date_trans_time.kind = "ts"

====
